---- MODULE Spec2Model ----
(***************************************************************************)
(* npm-audit-fix GitHub action: the run() workflow of index.ts.            *)
(*                                                                         *)
(* Texts are sequences.  A package-lock.json text is a sequence of JSON    *)
(* tokens ("{", "}", ":", ",", " ", "null", and string literals); an audit *)
(* report is a sequence of characters.  External commands (npm, git) and   *)
(* the hosting API are the environment: each call either succeeds with the *)
(* effect its command line names, or fails (non-zero exit, rejected        *)
(* request), and a failure is a thrown error.                              *)
(*                                                                         *)
(* The model follows the complete index.ts (run() with the verification    *)
(* and the issue).  src/index.ts holds the same code up to the end of the  *)
(* if (hasChanged) block, with an empty checkIfAuditFixesAll().            *)
(***************************************************************************)
EXTENDS Integers, Sequences, FiniteSets, TLC

VARIABLES
    WORKING_DIR,      \* input 'working-dir'
    lockFile,         \* directory -> package-lock.json text, or NoFile
    reportFile,       \* directory -> npm-audit-output.txt text, or NoFile
    localBranches,    \* branches of the local clone
    remoteBranch,     \* run that last pushed npm-audit-fix to the remote; 0: no such branch
    pulls,            \* open pull requests on the host, in creation order
    issues,           \* issues on the host, in creation order
    runNo,            \* number of the current run of the action
    pc,               \* position of run()
    prevRaw,          \* packageLockJson read by the first getPackageLock()
    curRaw,           \* packageLockJson read by the second getPackageLock()
    prevPackageLock,  \* run(): const prevPackageLock
    curPackageLock,   \* run(): const curPackageLock
    hasChanged,       \* run(): const hasChanged ({} until assigned)
    hasFixedAll,      \* run(): const hasFixedAll ({} until assigned)
    npmAuditOutput,   \* checkIfAuditFixesAll(): const npmAuditOutput
    auditReport,      \* createIssue(): const auditReport
    outputs,          \* values passed to setOutput('is_updated', _), in order
    prInvoked,        \* calls of makePullRequest() in this run
    issueInvoked,     \* calls of createIssue() in this run
    trace,            \* operations executed by this run, in order
    error             \* why the run was aborted ("none": it was not)

vars == <<WORKING_DIR, lockFile, reportFile, localBranches, remoteBranch, pulls,
          issues, runNo, pc, prevRaw, curRaw, prevPackageLock, curPackageLock,
          hasChanged, hasFixedAll, npmAuditOutput, auditReport, outputs,
          prInvoked, issueInvoked, trace, error>>

runLocals == <<prevRaw, curRaw, prevPackageLock, curPackageLock, hasChanged,
               hasFixedAll, npmAuditOutput, auditReport, outputs, prInvoked,
               issueInvoked>>

host == <<remoteBranch, pulls, issues>>

-----------------------------------------------------------------------------
(* Bounds of the explored inputs.                                          *)

\* members of a generated package-lock.json object
MaxMembers == 2

\* pieces a generated audit report is concatenated from
MaxPieces == 2

\* runs of the action against the same repository
MaxRuns == 2

Keys == {"a", "b"}

Versions == {"1.0.0", "1.0.1"}

Members == Keys \X Versions

MemberSeqs == UNION {[1..n -> Members] : n \in 0..MaxMembers}

RECURSIVE MemberTokens(_)
MemberTokens(ms) ==
    IF ms = <<>> THEN <<>>
    ELSE <<ms[1][1], ":", ms[1][2]>>
         \o (IF Len(ms) > 1 THEN <<",", " ">> \o MemberTokens(Tail(ms)) ELSE <<>>)

\* the text of a lock file listing the members ms in this order
LockText(ms) == <<"{">> \o MemberTokens(ms) \o <<"}">>

NoFile == <<"ENOENT">>

EmptyText == <<>>

\* texts that are not JSON: a truncated object, a file of white space
GarbageTexts == {<<"{", "a", ":">>, <<" ">>}

LockTexts ==
    {LockText(ms) : ms \in MemberSeqs} \cup {EmptyText, <<"null">>} \cup GarbageTexts

HasDistinctKeys(ms) == \A i, j \in 1..Len(ms) : ms[i][1] = ms[j][1] => i = j

\* what npm writes: an object without duplicate keys
NpmLockTexts == {LockText(ms) : ms \in {m \in MemberSeqs : HasDistinctKeys(m)}}

Found == <<"f", "o", "u", "n", "d", " ">>

Vulnerabilities ==
    <<" ", "v", "u", "l", "n", "e", "r", "a", "b", "i", "l", "i", "t", "i", "e", "s">>

\* "found ", "0 vulnerabilities", "1 vulnerabilities"
Pieces == {Found, <<"0">> \o Vulnerabilities, <<"1">> \o Vulnerabilities}

RECURSIVE Concat(_)
Concat(ps) == IF ps = <<>> THEN <<>> ELSE ps[1] \o Concat(Tail(ps))

Reports == {Concat(ps) : ps \in UNION {[1..n -> Pieces] : n \in 0..MaxPieces}}

-----------------------------------------------------------------------------
(* Pure functions of the program.                                          *)

CWD == "."

Dirs == {CWD, "sub"}

\* path.resolve(dir, file): the directory a relative dir names
resolve(dir) == IF dir \in {"", "."} THEN CWD ELSE dir

\* the directory exec() runs a command in: options.cwd, else the process's
NoOptions == "undefined"

execCwd(cwd) == IF cwd = NoOptions THEN CWD ELSE resolve(cwd)

JSNull == [type |-> "null", members |-> <<>>]

JSObject(ms) == [type |-> "object", members |-> ms]

SyntaxError == [type |-> "SyntaxError", members |-> <<>>]

Unassigned == [type |-> "unassigned", members |-> <<>>]

Punctuation == {"{", "}", ":", ",", " ", "null"}

IsString(t) == t \notin Punctuation

\* obj[k] = v on an object: a known key keeps its place, a new one goes last
RECURSIVE SetMember(_, _, _)
SetMember(ms, k, v) ==
    IF ms = <<>> THEN <<<<k, v>>>>
    ELSE IF ms[1][1] = k THEN <<<<k, v>>>> \o Tail(ms)
    ELSE <<ms[1]>> \o SetMember(Tail(ms), k, v)

RECURSIVE ParseMembers(_, _)
ParseMembers(toks, acc) ==
    IF Len(toks) < 3 \/ ~IsString(toks[1]) \/ toks[2] # ":" \/ ~IsString(toks[3])
    THEN SyntaxError
    ELSE LET acc2 == SetMember(acc, toks[1], toks[3]) IN
         IF Len(toks) = 3 THEN JSObject(acc2)
         ELSE IF toks[4] = "," THEN ParseMembers(SubSeq(toks, 5, Len(toks)), acc2)
         ELSE SyntaxError

\* JSON.parse(text)
JSONparse(text) ==
    LET t == SelectSeq(text, LAMBDA x : x # " ") IN
    IF t = <<"null">> THEN JSNull
    ELSE IF Len(t) >= 2 /\ t[1] = "{" /\ t[Len(t)] = "}"
    THEN IF Len(t) = 2 THEN JSObject(<<>>)
         ELSE ParseMembers(SubSeq(t, 2, Len(t) - 1), <<>>)
    ELSE SyntaxError

RECURSIVE StringifyMembers(_)
StringifyMembers(ms) ==
    IF ms = <<>> THEN <<>>
    ELSE <<ms[1][1], ":", ms[1][2]>>
         \o (IF Len(ms) > 1 THEN <<",">> \o StringifyMembers(Tail(ms)) ELSE <<>>)

\* JSON.stringify(value)
JSONstringify(value) ==
    IF value.type = "null" THEN <<"null">>
    ELSE <<"{">> \o StringifyMembers(value.members) \o <<"}">>

\* !value
Falsy(value) == value.type = "null"

\* getPackageLock(): packageLockJson ? JSON.parse(packageLockJson) : {}
getPackageLock(packageLockJson) ==
    IF packageLockJson # EmptyText THEN JSONparse(packageLockJson) ELSE JSObject(<<>>)

\* packageLockHasChanged(previous, current): the value it returns
packageLockHasChanged(previous, current) == previous # current

\* a comparison that publishes only in its `changed' branch
setOutputCalls_OnlyWhenChanged(previous, current) ==
    IF previous # current THEN <<TRUE>> ELSE <<>>

\* the setOutput('is_updated', _) calls of packageLockHasChanged(previous, current)
setOutputCalls(previous, current) ==
    IF previous # current THEN <<TRUE>> ELSE <<FALSE>>

\* deep structural equality of two parsed snapshots, whatever the key order
StructurallyEqual(x, y) ==
    /\ x.type = y.type
    /\ {x.members[i] : i \in 1..Len(x.members)} = {y.members[i] : i \in 1..Len(y.members)}

Marker == Found \o <<"0">> \o Vulnerabilities

\* String.prototype.indexOf: first 0-based position of sub in s, -1 if none
indexOf(s, sub) ==
    LET hits == {i \in 0..(Len(s) - Len(sub)) : SubSeq(s, i + 1, i + Len(sub)) = sub} IN
    IF hits = {} THEN -1 ELSE CHOOSE i \in hits : \A j \in hits : i <= j

\* checkIfAuditFixesAll(): the value it returns for the text it read
checkIfAuditFixesAll(output) == indexOf(output, Marker) > -1

\* the fixed text the body starts with (its quoting and line break left out)
IssuePreamble ==
    <<"Attempt to auto fix npm vulnerabilities via npm audit fix was not 100% successfull. The following is the report">>

\* createIssue(): the body of the issue
IssueBody(report) == IssuePreamble \o report

FixBranch == "npm-audit-fix"

DefaultBranch == "main"

-----------------------------------------------------------------------------
(* Control flow of run() and of the functions it awaits.                   *)

\* an error that is caught and dropped: the run goes on
Abort_Swallowed(next) == next

\* a thrown error rejects the promise of run(): nothing after the throw runs
Abort(next) == "failed"

\* makePullRequest() opening the pull request before the branch is pushed
makePullRequest_CreateBeforePush ==
    <<"pr_meta", "pr_cfg_name", "pr_cfg_email", "pr_checkout", "pr_status",
      "pr_add", "pr_commit", "pr_create", "pr_push">>

\* the awaited calls of makePullRequest(), in program order
makePullRequest ==
    <<"pr_meta", "pr_cfg_name", "pr_cfg_email", "pr_checkout", "pr_status",
      "pr_add", "pr_commit", "pr_push", "pr_create">>

\* the reads and awaited calls of createIssue(), in program order
createIssue == <<"is_read", "is_meta", "is_cfg_name", "is_cfg_email", "is_create">>

\* the position after step s of a function, ret being where its caller goes on
StepAfter(steps, s, ret) ==
    LET i == CHOOSE k \in 1..Len(steps) : steps[k] = s IN
    IF i < Len(steps) THEN steps[i + 1] ELSE ret

\* run() without the if: the pull request is made whatever the comparison says
AfterCompare_Always(changed) == "pr_meta"

\* run(): if (hasChanged) { await makePullRequest(); }
AfterCompare(changed) == IF changed THEN makePullRequest[1] ELSE "verify_exec"

\* run() with the verification in an else: a pull request ends the run
AfterPullRequest_Return == "done"

\* run(): the statement after the if (hasChanged) block
AfterPullRequest == "verify_exec"

\* run(): if (!hasFixedAll) { await createIssue(); }
AfterVerify(fixedAll) == IF ~fixedAll THEN createIssue[1] ELSE "done"

\* run(): the end of the function
AfterIssue == "done"

Op(name, kind, dir) == [op |-> name, kind |-> kind, dir |-> dir]

NoDir == "-"

-----------------------------------------------------------------------------
(* Initial states: one run about to start in a clone of the repository.    *)

\* a report left in the working directory by something else than this run
StaleReports == {Marker, Found \o <<"1">> \o Vulnerabilities}

\* the lock file a directory holds when nothing is known to have changed it
CommittedLock == LockText(<<<<"a", "1.0.0">>>>)

Init ==
    /\ WORKING_DIR \in {".", "sub"}
    /\ lockFile \in {f \in [Dirs -> LockTexts \cup {NoFile}] :
                        \A d \in Dirs \ {resolve(WORKING_DIR)} : f[d] = CommittedLock}
    /\ reportFile \in {f \in [Dirs -> StaleReports \cup {NoFile}] : f[CWD] = NoFile}
    /\ localBranches = {DefaultBranch}
    /\ remoteBranch = 0
    /\ pulls = <<>>
    /\ issues = <<>>
    /\ runNo = 1
    /\ pc = "read_pre"
    /\ prevRaw = NoFile
    /\ curRaw = NoFile
    /\ prevPackageLock = Unassigned
    /\ curPackageLock = Unassigned
    /\ hasChanged = {}
    /\ hasFixedAll = {}
    /\ npmAuditOutput = NoFile
    /\ auditReport = NoFile
    /\ outputs = <<>>
    /\ prInvoked = 0
    /\ issueInvoked = 0
    /\ trace = <<>>
    /\ error = "none"

-----------------------------------------------------------------------------
(* Actions: one per awaited call or synchronous stretch of run().          *)

\* const prevPackageLock = await getPackageLock();
GetPackageLockPre ==
    /\ pc = "read_pre"
    /\ LET dir == resolve(WORKING_DIR)
           packageLockJson == lockFile[dir]
           value == getPackageLock(packageLockJson) IN
       /\ trace' = Append(trace, Op("read package-lock.json", "file", dir))
       /\ IF packageLockJson = NoFile
          THEN /\ pc' = Abort("install")
               /\ error' = "io"
               /\ UNCHANGED <<prevRaw, prevPackageLock>>
          ELSE IF value = SyntaxError
          THEN /\ pc' = Abort("install")
               /\ error' = "parse"
               /\ prevRaw' = packageLockJson
               /\ UNCHANGED prevPackageLock
          ELSE /\ pc' = "install"
               /\ prevRaw' = packageLockJson
               /\ prevPackageLock' = value
               /\ UNCHANGED error
    /\ UNCHANGED <<WORKING_DIR, lockFile, reportFile, localBranches, host, runNo,
                   curRaw, curPackageLock, hasChanged, hasFixedAll, npmAuditOutput,
                   auditReport, outputs, prInvoked, issueInvoked>>

\* the lock files npm may leave behind where the lock file was old
NpmResults(old) == NpmLockTexts \cup ({old} \ {NoFile})

\* await exec(`npm install`);
NpmInstall ==
    /\ pc = "install"
    /\ LET dir == execCwd(NoOptions) IN
       /\ trace' = Append(trace, Op("npm install", "npm", dir))
       /\ \/ /\ pc' = "auditfix"
             /\ \E new \in NpmResults(lockFile[dir]) :
                    lockFile' = [lockFile EXCEPT ![dir] = new]
             /\ UNCHANGED error
          \/ /\ pc' = Abort("auditfix")
             /\ error' = "exit"
             /\ UNCHANGED lockFile
    /\ UNCHANGED <<WORKING_DIR, reportFile, localBranches, host, runNo, runLocals>>

\* await exec(`npm audit fix`);
NpmAuditFix ==
    /\ pc = "auditfix"
    /\ LET dir == execCwd(NoOptions) IN
       /\ trace' = Append(trace, Op("npm audit fix", "npm", dir))
       /\ \/ /\ pc' = "read_post"
             /\ \E new \in NpmResults(lockFile[dir]) :
                    lockFile' = [lockFile EXCEPT ![dir] = new]
             /\ UNCHANGED error
          \/ /\ pc' = Abort("read_post")
             /\ error' = "exit"
             /\ UNCHANGED lockFile
    /\ UNCHANGED <<WORKING_DIR, reportFile, localBranches, host, runNo, runLocals>>

\* const curPackageLock = await getPackageLock();
GetPackageLockPost ==
    /\ pc = "read_post"
    /\ LET dir == resolve(WORKING_DIR)
           packageLockJson == lockFile[dir]
           value == getPackageLock(packageLockJson) IN
       /\ trace' = Append(trace, Op("read package-lock.json", "file", dir))
       /\ IF packageLockJson = NoFile
          THEN /\ pc' = Abort("check")
               /\ error' = "io"
               /\ UNCHANGED <<curRaw, curPackageLock>>
          ELSE IF value = SyntaxError
          THEN /\ pc' = Abort("check")
               /\ error' = "parse"
               /\ curRaw' = packageLockJson
               /\ UNCHANGED curPackageLock
          ELSE /\ pc' = "check"
               /\ curRaw' = packageLockJson
               /\ curPackageLock' = value
               /\ UNCHANGED error
    /\ UNCHANGED <<WORKING_DIR, lockFile, reportFile, localBranches, host, runNo,
                   prevRaw, prevPackageLock, hasChanged, hasFixedAll, npmAuditOutput,
                   auditReport, outputs, prInvoked, issueInvoked>>

\* if (!curPackageLock || !prevPackageLock) throw new Error(...)
CheckPackageLocks ==
    /\ pc = "check"
    /\ IF Falsy(curPackageLock) \/ Falsy(prevPackageLock)
       THEN pc' = Abort("compare") /\ error' = "missing"
       ELSE pc' = "compare" /\ UNCHANGED error
    /\ UNCHANGED <<WORKING_DIR, lockFile, reportFile, localBranches, host, runNo,
                   runLocals, trace>>

\* const hasChanged = await packageLockHasChanged(JSON.stringify(..), JSON.stringify(..));
\* and the if (hasChanged) that follows it
PackageLockHasChanged ==
    /\ pc = "compare"
    /\ LET previous == JSONstringify(prevPackageLock)
           current == JSONstringify(curPackageLock)
           changed == packageLockHasChanged(previous, current)
           calls == setOutputCalls(previous, current) IN
       /\ outputs' = outputs \o calls
       /\ trace' = trace \o [i \in 1..Len(calls) |-> Op("setOutput is_updated", "output", NoDir)]
       /\ hasChanged' = {changed}
       /\ pc' = AfterCompare(changed)
       /\ prInvoked' = prInvoked + (IF AfterCompare(changed) = makePullRequest[1] THEN 1 ELSE 0)
    /\ UNCHANGED <<WORKING_DIR, lockFile, reportFile, localBranches, host, runNo,
                   prevRaw, curRaw, prevPackageLock, curPackageLock, hasFixedAll,
                   npmAuditOutput, auditReport, issueInvoked, error>>

\* an awaited call without an effect the model keeps: it returns or it throws
Call(here, next, op, cause) ==
    /\ pc = here
    /\ trace' = Append(trace, op)
    /\ \/ pc' = next /\ UNCHANGED error
       \/ pc' = Abort(next) /\ error' = cause

\* await octokit.request('GET /repos/:owner/:repo', ...) of makePullRequest or createIssue
GetRepository(here, steps, ret) ==
    /\ Call(here, StepAfter(steps, here, ret), Op("GET /repos/:owner/:repo", "api", NoDir), "api")
    /\ UNCHANGED <<WORKING_DIR, lockFile, reportFile, localBranches, host, runNo, runLocals>>

\* githubConfig(): await exec(`git config --global user.name ${GITHUB_USER}`);
GithubConfigUserName(here, steps, ret) ==
    /\ Call(here, StepAfter(steps, here, ret),
            Op("git config --global user.name", "gitconfig", execCwd(NoOptions)), "exit")
    /\ UNCHANGED <<WORKING_DIR, lockFile, reportFile, localBranches, host, runNo, runLocals>>

\* githubConfig(): await exec(`git config --global user.email ${GITHUB_EMAIL}`);
GithubConfigUserEmail(here, steps, ret) ==
    /\ Call(here, StepAfter(steps, here, ret),
            Op("git config --global user.email", "gitconfig", execCwd(NoOptions)), "exit")
    /\ UNCHANGED <<WORKING_DIR, lockFile, reportFile, localBranches, host, runNo, runLocals>>

\* await exec('git checkout -b npm-audit-fix', undefined, { cwd: WORKING_DIR });
\* git refuses to create a branch that the clone already has
GitCheckout ==
    /\ pc = "pr_checkout"
    /\ LET next == StepAfter(makePullRequest, "pr_checkout", AfterPullRequest) IN
       /\ trace' = Append(trace, Op("git checkout -b npm-audit-fix", "git", execCwd(WORKING_DIR)))
       /\ IF FixBranch \in localBranches
          THEN pc' = Abort(next) /\ error' = "exists" /\ UNCHANGED localBranches
          ELSE \/ /\ pc' = next
                  /\ localBranches' = localBranches \cup {FixBranch}
                  /\ UNCHANGED error
               \/ /\ pc' = Abort(next)
                  /\ error' = "exit"
                  /\ UNCHANGED localBranches
    /\ UNCHANGED <<WORKING_DIR, lockFile, reportFile, host, runNo, runLocals>>

\* await exec('git status');
GitStatus ==
    /\ Call("pr_status", StepAfter(makePullRequest, "pr_status", AfterPullRequest),
            Op("git status", "git", execCwd(NoOptions)), "exit")
    /\ UNCHANGED <<WORKING_DIR, lockFile, reportFile, localBranches, host, runNo, runLocals>>

\* await exec('git add -A');
GitAdd ==
    /\ Call("pr_add", StepAfter(makePullRequest, "pr_add", AfterPullRequest),
            Op("git add -A", "git", execCwd(NoOptions)), "exit")
    /\ UNCHANGED <<WORKING_DIR, lockFile, reportFile, localBranches, host, runNo, runLocals>>

\* await exec('git commit -m "npm audit fix attempted"');
GitCommit ==
    /\ Call("pr_commit", StepAfter(makePullRequest, "pr_commit", AfterPullRequest),
            Op("git commit", "git", execCwd(NoOptions)), "exit")
    /\ UNCHANGED <<WORKING_DIR, lockFile, reportFile, localBranches, host, runNo, runLocals>>

\* await exec(`git push --force ${GITHUB_REMOTE} npm-audit-fix`);
\* a forced push replaces whatever the remote branch held
GitPush ==
    /\ pc = "pr_push"
    /\ LET next == StepAfter(makePullRequest, "pr_push", AfterPullRequest) IN
       /\ trace' = Append(trace, Op("git push --force", "git", execCwd(NoOptions)))
       /\ \/ pc' = next /\ remoteBranch' = runNo /\ UNCHANGED error
          \/ pc' = Abort(next) /\ error' = "exit" /\ UNCHANGED remoteBranch
    /\ UNCHANGED <<WORKING_DIR, lockFile, reportFile, localBranches, pulls, issues,
                   runNo, runLocals>>

PullRequest(base) == [head |-> FixBranch, base |-> base, run |-> runNo]

\* await octokit.rest.pulls.create({ ..., base: data.default_branch, head: 'npm-audit-fix' });
\* the host rejects a second open pull request for the same head and base
PullsCreate ==
    /\ pc = "pr_create"
    /\ LET next == StepAfter(makePullRequest, "pr_create", AfterPullRequest) IN
       /\ trace' = Append(trace, Op("pulls.create", "api", NoDir))
       /\ IF \E i \in 1..Len(pulls) : pulls[i].head = FixBranch /\ pulls[i].base = DefaultBranch
          THEN pc' = Abort(next) /\ error' = "exists" /\ UNCHANGED pulls
          ELSE \/ /\ pc' = next
                  /\ pulls' = Append(pulls, PullRequest(DefaultBranch))
                  /\ UNCHANGED error
               \/ /\ pc' = Abort(next)
                  /\ error' = "api"
                  /\ UNCHANGED pulls
    /\ UNCHANGED <<WORKING_DIR, lockFile, reportFile, localBranches, remoteBranch,
                   issues, runNo, runLocals>>

\* checkIfAuditFixesAll(): await exec(`npm audit > npm-audit-output.txt`);
NpmAudit ==
    /\ pc = "verify_exec"
    /\ LET dir == execCwd(NoOptions) IN
       /\ trace' = Append(trace, Op("npm audit > npm-audit-output.txt", "npm", dir))
       /\ \/ /\ pc' = "verify_read"
             /\ \E report \in Reports : reportFile' = [reportFile EXCEPT ![dir] = report]
             /\ UNCHANGED error
          \/ /\ pc' = Abort("verify_read")
             /\ error' = "exit"
             /\ UNCHANGED reportFile
    /\ UNCHANGED <<WORKING_DIR, lockFile, localBranches, host, runNo, runLocals>>

\* checkIfAuditFixesAll(): the readFileSync, the indexOf test and the return;
\* run(): if (!hasFixedAll) { await createIssue(); }
ReadAuditOutput ==
    /\ pc = "verify_read"
    /\ LET dir == resolve(WORKING_DIR)
           text == reportFile[dir]
           fixedAll == checkIfAuditFixesAll(text) IN
       /\ trace' = Append(trace, Op("read npm-audit-output.txt", "file", dir))
       /\ IF text = NoFile
          THEN /\ pc' = Abort("done")
               /\ error' = "io"
               /\ UNCHANGED <<npmAuditOutput, hasFixedAll, issueInvoked>>
          ELSE /\ npmAuditOutput' = text
               /\ hasFixedAll' = {fixedAll}
               /\ pc' = AfterVerify(fixedAll)
               /\ issueInvoked' = issueInvoked + (IF AfterVerify(fixedAll) = createIssue[1] THEN 1 ELSE 0)
               /\ UNCHANGED error
    /\ UNCHANGED <<WORKING_DIR, lockFile, reportFile, localBranches, host, runNo,
                   prevRaw, curRaw, prevPackageLock, curPackageLock, hasChanged,
                   auditReport, outputs, prInvoked>>

\* createIssue(): const auditReport = readFileSync(resolve(WORKING_DIR, 'npm-audit-output.txt'))
ReadAuditReport ==
    /\ pc = "is_read"
    /\ LET dir == resolve(WORKING_DIR)
           text == reportFile[dir]
           next == StepAfter(createIssue, "is_read", AfterIssue) IN
       /\ trace' = Append(trace, Op("read npm-audit-output.txt", "file", dir))
       /\ IF text = NoFile
          THEN pc' = Abort(next) /\ error' = "io" /\ UNCHANGED auditReport
          ELSE pc' = next /\ auditReport' = text /\ UNCHANGED error
    /\ UNCHANGED <<WORKING_DIR, lockFile, reportFile, localBranches, host, runNo,
                   prevRaw, curRaw, prevPackageLock, curPackageLock, hasChanged,
                   hasFixedAll, npmAuditOutput, outputs, prInvoked, issueInvoked>>

Issue(body) == [title |-> "npm audit fix failed", body |-> body, run |-> runNo]

\* await octokit.rest.issues.create({ ..., title, body: <preamble> + auditReport });
IssuesCreate ==
    /\ pc = "is_create"
    /\ LET next == StepAfter(createIssue, "is_create", AfterIssue) IN
       /\ trace' = Append(trace, Op("issues.create", "api", NoDir))
       /\ \/ /\ pc' = next
             /\ issues' = Append(issues, Issue(IssueBody(auditReport)))
             /\ UNCHANGED error
          \/ /\ pc' = Abort(next)
             /\ error' = "api"
             /\ UNCHANGED issues
    /\ UNCHANGED <<WORKING_DIR, lockFile, reportFile, localBranches, remoteBranch,
                   pulls, runNo, runLocals>>

\* the action is run again on the repository: in the clone the last run left,
\* or in a new clone of the default branch
NewRun ==
    /\ pc \in {"done", "failed"}
    /\ runNo < MaxRuns
    /\ runNo' = runNo + 1
    /\ \/ UNCHANGED <<localBranches, lockFile, reportFile>>
       \/ /\ localBranches' = {DefaultBranch}
          /\ lockFile' = [d \in Dirs |-> CommittedLock]
          /\ reportFile' = [d \in Dirs |-> NoFile]
    /\ pc' = "read_pre"
    /\ prevRaw' = NoFile
    /\ curRaw' = NoFile
    /\ prevPackageLock' = Unassigned
    /\ curPackageLock' = Unassigned
    /\ hasChanged' = {}
    /\ hasFixedAll' = {}
    /\ npmAuditOutput' = NoFile
    /\ auditReport' = NoFile
    /\ outputs' = <<>>
    /\ prInvoked' = 0
    /\ issueInvoked' = 0
    /\ trace' = <<>>
    /\ error' = "none"
    /\ UNCHANGED <<WORKING_DIR, host>>

Next ==
    \/ GetPackageLockPre
    \/ NpmInstall
    \/ NpmAuditFix
    \/ GetPackageLockPost
    \/ CheckPackageLocks
    \/ PackageLockHasChanged
    \/ GetRepository("pr_meta", makePullRequest, AfterPullRequest)
    \/ GithubConfigUserName("pr_cfg_name", makePullRequest, AfterPullRequest)
    \/ GithubConfigUserEmail("pr_cfg_email", makePullRequest, AfterPullRequest)
    \/ GitCheckout
    \/ GitStatus
    \/ GitAdd
    \/ GitCommit
    \/ GitPush
    \/ PullsCreate
    \/ NpmAudit
    \/ ReadAuditOutput
    \/ ReadAuditReport
    \/ GetRepository("is_meta", createIssue, AfterIssue)
    \/ GithubConfigUserName("is_cfg_name", createIssue, AfterIssue)
    \/ GithubConfigUserEmail("is_cfg_email", createIssue, AfterIssue)
    \/ IssuesCreate

\* one run of the action
Spec == Init /\ [][Next]_vars

\* runs of the action, one after another, against the same repository
NextRuns == Next \/ NewRun

\* the first of the runs starts in a clone of the default branch
InitRuns ==
    /\ Init
    /\ WORKING_DIR = "."
    /\ lockFile = [d \in Dirs |-> CommittedLock]
    /\ reportFile = [d \in Dirs |-> NoFile]

SpecRuns == InitRuns /\ [][NextRuns]_vars

-----------------------------------------------------------------------------
(* Properties.                                                             *)

OpNames == [i \in 1..Len(trace) |-> trace[i].op]

Executed(op) == \E i \in 1..Len(trace) : trace[i].op = op

TimesExecuted(op) == Cardinality({i \in 1..Len(trace) : trace[i].op = op})

\* s occurs in text, at any position
Occurs(s, text) ==
    \E i \in 1..(Len(text) - Len(s) + 1) : SubSeq(text, i, i + Len(s) - 1) = s

IsPrefix(s, t) == Len(s) <= Len(t) /\ SubSeq(t, 1, Len(s)) = s

\* operations only makePullRequest() performs
PullRequestOps ==
    {"git checkout -b npm-audit-fix", "git status", "git add -A", "git commit",
     "git push --force", "pulls.create"}

\* operations both publishers perform, and no other part of run()
PublisherOps ==
    PullRequestOps \cup {"GET /repos/:owner/:repo", "git config --global user.name",
                         "git config --global user.email", "issues.create"}

\* C1: makePullRequest is invoked exactly once when packageLockHasChanged returned
\* true and never when it returned false (nor before it returned); none of its
\* operations is executed twice, or at all unless the comparison returned true.
C1_PullRequestIffChanged ==
    /\ prInvoked = (IF hasChanged = {TRUE} THEN 1 ELSE 0)
    /\ \A op \in PullRequestOps : TimesExecuted(op) <= prInvoked
    /\ Len(pulls) <= prInvoked

C1_Witness ==
    /\ pc = "done"
    /\ hasChanged = {TRUE}
    /\ prInvoked = 1
    /\ TimesExecuted("pulls.create") = 1
    /\ Len(pulls) = 1

\* what createIssue does hold of the text checkIfAuditFixesAll read back: it
\* has been invoked exactly once if that text lacks the marker and not at all
\* if it has it, and an issue it opens has a body that ends with that text.
IssueFollowsTextRead ==
    /\ issueInvoked =
          (IF hasFixedAll # {} /\ ~Occurs(Marker, npmAuditOutput) THEN 1 ELSE 0)
    /\ TimesExecuted("issues.create") <= issueInvoked
    /\ Len(issues) <= issueInvoked
    /\ \A i \in 1..Len(issues) :
          LET body == issues[i].body IN
          /\ Len(body) >= Len(npmAuditOutput)
          /\ SubSeq(body, Len(body) - Len(npmAuditOutput) + 1, Len(body)) = npmAuditOutput

\* C3: in a run that ends normally both decisions were taken, the pull request
\* was made iff the comparison returned true and the issue was opened iff the
\* verification returned false, whatever the other decision was; with equal
\* lock texts and a report that has the marker neither was made and
\* is_updated is false.
C3_BranchesIndependent ==
    pc = "done" =>
        /\ hasChanged # {} /\ hasFixedAll # {}
        /\ (Len(pulls) = 1) = (hasChanged = {TRUE})
        /\ (Len(issues) = 1) = (hasFixedAll = {FALSE})
        /\ (prevRaw = curRaw /\ Occurs(Marker, npmAuditOutput)) =>
              (pulls = <<>> /\ issues = <<>> /\ outputs = <<FALSE>>)

\* a pull request and an issue in the same run
C3_Witness ==
    /\ pc = "done"
    /\ Len(pulls) = 1
    /\ Len(issues) = 1
    /\ hasChanged = {TRUE}
    /\ hasFixedAll = {FALSE}

\* the other three combinations of the two decisions
C3_OnlyPullRequest == pc = "done" /\ Len(pulls) = 1 /\ issues = <<>>

C3_OnlyIssue == pc = "done" /\ pulls = <<>> /\ Len(issues) = 1

C3_Neither ==
    pc = "done" /\ pulls = <<>> /\ issues = <<>> /\ prevRaw = curRaw /\ outputs = <<FALSE>>

\* C4: is_updated is published at most once, exactly once from the moment the
\* comparison has returned (with the value it returned, true or false), and
\* before every operation of the two publishers.
C4_OutputPublishedOnce ==
    /\ Len(outputs) <= 1
    /\ TimesExecuted("setOutput is_updated") = Len(outputs)
    /\ (hasChanged # {}) = (Len(outputs) = 1)
    /\ \A b \in hasChanged : outputs = <<b>>
    /\ pc = "done" => Len(outputs) = 1
    /\ \A i \in 1..Len(trace) :
          trace[i].op \in PublisherOps =>
              \E j \in 1..(i - 1) : trace[j].op = "setOutput is_updated"

C4_Witness ==
    /\ pc = "done"
    /\ outputs = <<FALSE>>
    /\ hasChanged = {FALSE}
    /\ Executed("issues.create")

\* the run has been aborted by a thrown error
Aborted == error # "none"

\* C5: a thrown error ends the run: from then on no operation is executed and
\* nothing changes.  A run whose first read found no lock file executed nothing
\* else, and a run aborted inside makePullRequest never ran npm audit nor
\* createIssue.
C5_AbortStopsRun ==
    /\ [](Aborted => pc = "failed")
    /\ []((trace # <<>> /\ prevRaw = NoFile) => (Aborted /\ Len(trace) = 1))
    /\ []((Aborted /\ trace # <<>> /\ trace[Len(trace)].op \in PullRequestOps) =>
            (~Executed("npm audit > npm-audit-output.txt") /\ issueInvoked = 0
             /\ hasFixedAll = {}))
    /\ [][Aborted => UNCHANGED vars]_vars

C5_Witness ==
    /\ pc = "failed"
    /\ error = "exit"
    /\ trace[Len(trace)].op = "git push --force"
    /\ remoteBranch = 0
    /\ pulls = <<>>

\* the operations of a complete run, in program order
runOrder(changed, fixedAll) ==
    <<"read package-lock.json", "npm install", "npm audit fix",
      "read package-lock.json", "setOutput is_updated">>
    \o (IF changed
        THEN <<"GET /repos/:owner/:repo", "git config --global user.name",
               "git config --global user.email", "git checkout -b npm-audit-fix",
               "git status", "git add -A", "git commit", "git push --force",
               "pulls.create">>
        ELSE <<>>)
    \o <<"npm audit > npm-audit-output.txt", "read npm-audit-output.txt">>
    \o (IF ~fixedAll
        THEN <<"read npm-audit-output.txt", "GET /repos/:owner/:repo",
               "git config --global user.name", "git config --global user.email",
               "issues.create">>
        ELSE <<>>)

\* C10: the operations a run has executed are, in order, an initial part of
\* the one program order (reads, install, audit fix, read, compare, the pull
\* request steps if the lock changed, audit and its read, the issue steps if
\* not all was fixed), and all of it when the run ends normally.
C10_TotalOrder ==
    /\ hasChanged = {} => IsPrefix(OpNames, SubSeq(runOrder(FALSE, TRUE), 1, 4))
    /\ (hasChanged # {} /\ hasFixedAll = {}) =>
          IsPrefix(OpNames, runOrder(TRUE \in hasChanged, TRUE))
    /\ hasFixedAll # {} =>
          IsPrefix(OpNames, runOrder(TRUE \in hasChanged, TRUE \in hasFixedAll))
    /\ pc = "done" => OpNames = runOrder(TRUE \in hasChanged, TRUE \in hasFixedAll)

C10_Witness ==
    /\ pc = "done"
    /\ OpNames = runOrder(TRUE, FALSE)
    /\ Len(trace) = 21

\* C6 as stated: the comparison returns, and publishes, true exactly when the
\* two parsed snapshots differ structurally, whatever the order of their keys.
C6_ComparesStructure ==
    hasChanged # {} =>
        /\ hasChanged = {~StructurallyEqual(prevPackageLock, curPackageLock)}
        /\ outputs = <<~StructurallyEqual(prevPackageLock, curPackageLock)>>

\* C7 as stated: when both reads found the lock file empty, the run is aborted
\* with the "missing ... package-lock.json data" error before the comparison:
\* nothing is published and no publisher is invoked.
C7_EmptyLocksAbort ==
    (prevRaw = EmptyText /\ curRaw = EmptyText) =>
        /\ pc \in {"check", "failed"}
        /\ pc = "failed" => error = "missing"
        /\ outputs = <<>>
        /\ prInvoked = 0
        /\ issueInvoked = 0

\* C8 as stated: every file, npm and git operation of a run works in the
\* directory 'working-dir' names.
C8_AllInWorkingDir ==
    \A i \in 1..Len(trace) :
        trace[i].kind \in {"file", "npm", "git"} => trace[i].dir = resolve(WORKING_DIR)

\* C9 as stated: every pull request is from the branch npm-audit-fix, and an
\* invocation of makePullRequest made while an earlier run's branch is on the
\* remote is never aborted because the branch, or the pull request from it,
\* already exists.
C9_SecondRunOverwrites ==
    /\ \A i \in 1..Len(pulls) : pulls[i].head = FixBranch
    /\ (runNo > 1 /\ prInvoked = 1 /\ remoteBranch # 0) => error # "exists"

\* the report this run's npm audit wrote, once it has written it
Captured == Executed("read npm-audit-output.txt")

Capture == reportFile[execCwd(NoOptions)]

\* C2 as stated: once the report of this run's npm audit is read back,
\* createIssue has been invoked exactly once if that report lacks "found 0
\* vulnerabilities" and not at all if it has it, and an issue it opens has a
\* body that ends with the whole report.
C2_IssueIffCaptureLacksMarker ==
    (Captured /\ ~Aborted) =>
        /\ issueInvoked = (IF Occurs(Marker, Capture) THEN 0 ELSE 1)
        /\ \A i \in 1..Len(issues) :
              LET body == issues[i].body IN
              /\ Len(body) >= Len(Capture)
              /\ SubSeq(body, Len(body) - Len(Capture) + 1, Len(body)) = Capture

====
